---- MODULE Spec2Model ----
(***************************************************************************)
(* turkish-llava-notebooks: the two notebooks as state machines.           *)
(*                                                                         *)
(*   inference_turkish_llava_4bit.ipynb       the inference pipeline       *)
(*   fine_tuning_turkish_llava_with_qlora.ipynb  the fine-tuning pipeline  *)
(*                                                                         *)
(* A Python str is a sequence of one-character strings, so concatenation   *)
(* is \o and two strings are equal exactly when they are byte-identical.   *)
(* A call into a library (download, load, generate, train, merge, upload)  *)
(* either returns or raises; which of the two is decided by the library    *)
(* and its environment, so the model leaves it open.                       *)
(***************************************************************************)
EXTENDS Integers, Sequences, FiniteSets, TLC

(***************************************************************************)
(* Bounds of the model.                                                    *)
(***************************************************************************)
\* longest text drawn for the system and the user prompt
MaxLen == 2

\* longest source list handed to _add_speaker_and_signal
MaxSentences == 2

\* most calls of _add_speaker_and_signal on one source list
MaxCalls == 2

\* most rows of the source dataset
MaxRows == 3

\* largest batch size handed to ds.map and preprocess
MaxBatchSize == 2

Alphabet == {"a", " ", "<"}

Texts == UNION {[1..k -> Alphabet] : k \in 0..MaxLen}

(***************************************************************************)
(* String literals of the notebooks.                                       *)
(***************************************************************************)
\* "<|begin_of_text|><|start_header_id|>system<|end_header_id|>\n\n"
SYSTEM_HEAD ==
    <<"<", "|", "b", "e", "g", "i", "n", "_", "o", "f", "_", "t", "e", "x",
      "t", "|", ">", "<", "|", "s", "t", "a", "r", "t", "_", "h", "e", "a",
      "d", "e", "r", "_", "i", "d", "|", ">", "s", "y", "s", "t", "e", "m",
      "<", "|", "e", "n", "d", "_", "h", "e", "a", "d", "e", "r", "_", "i",
      "d", "|", ">", "\n", "\n">>

\* "<|eot_id|><|start_header_id|>user<|end_header_id|>\n\n"
USER_HEAD ==
    <<"<", "|", "e", "o", "t", "_", "i", "d", "|", ">", "<", "|", "s", "t",
      "a", "r", "t", "_", "h", "e", "a", "d", "e", "r", "_", "i", "d", "|",
      ">", "u", "s", "e", "r", "<", "|", "e", "n", "d", "_", "h", "e", "a",
      "d", "e", "r", "_", "i", "d", "|", ">", "\n", "\n">>

\* "<|eot_id|><|start_header_id|>assistant<|end_header_id|>\n\n"
ASSISTANT_HEAD ==
    <<"<", "|", "e", "o", "t", "_", "i", "d", "|", ">", "<", "|", "s", "t",
      "a", "r", "t", "_", "h", "e", "a", "d", "e", "r", "_", "i", "d", "|",
      ">", "a", "s", "s", "i", "s", "t", "a", "n", "t", "<", "|", "e", "n",
      "d", "_", "h", "e", "a", "d", "e", "r", "_", "i", "d", "|", ">",
      "\n", "\n">>

\* "<image>\n"
IMAGE_NL == <<"<", "i", "m", "a", "g", "e", ">", "\n">>

\* EOS_TOKEN = "<|eot_id|>"
EOS_TOKEN == <<"<", "|", "e", "o", "t", "_", "i", "d", "|", ">">>

\* conv.default_conversation.roles
roles ==
  <<
    <<"<", "|", "s", "t", "a", "r", "t", "_", "h", "e", "a", "d", "e", "r",
      "_", "i", "d", "|", ">", "u", "s", "e", "r", "<", "|", "e", "n", "d",
      "_", "h", "e", "a", "d", "e", "r", "_", "i", "d", "|", ">", "\n", "\n">>,
    <<"<", "|", "s", "t", "a", "r", "t", "_", "h", "e", "a", "d", "e", "r",
      "_", "i", "d", "|", ">", "a", "s", "s", "i", "s", "t", "a", "n", "t",
      "<", "|", "e", "n", "d", "_", "h", "e", "a", "d", "e", "r", "_", "i",
      "d", "|", ">", "\n", "\n">>
  >>

STR_human == <<"h", "u", "m", "a", "n">>

STR_gpt == <<"g", "p", "t">>

STR_unknown == <<"u", "n", "k", "n", "o", "w", "n">>

DOT_JPG == <<".", "j", "p", "g">>

UPPER ==
    <<"A", "B", "C", "D", "E", "F", "G", "H", "I", "J", "K", "L", "M", "N",
      "O", "P", "Q", "R", "S", "T", "U", "V", "W", "X", "Y", "Z">>

LOWER ==
    <<"a", "b", "c", "d", "e", "f", "g", "h", "i", "j", "k", "l", "m", "n",
      "o", "p", "q", "r", "s", "t", "u", "v", "w", "x", "y", "z">>

(***************************************************************************)
(* str.lower(), character by character.                                    *)
(***************************************************************************)
lower_char(c) ==
  IF \E i \in 1..Len(UPPER) : UPPER[i] = c
    THEN LOWER[CHOOSE i \in 1..Len(UPPER) : UPPER[i] = c]
    ELSE c

lower(s) == [i \in 1..Len(s) |-> lower_char(s[i])]

(***************************************************************************)
(* str(n) of a non-negative int, as an f-string formats it.                *)
(***************************************************************************)
DIGITS == <<"0", "1", "2", "3", "4", "5", "6", "7", "8", "9">>

RECURSIVE str(_)
str(n) == IF n < 10 THEN <<DIGITS[n + 1]>>
          ELSE str(n \div 10) \o <<DIGITS[(n % 10) + 1]>>

(***************************************************************************)
(* inference notebook: preprocess_prompt                                   *)
(***************************************************************************)
preprocess_prompt_no_image(system_prompt_, user_prompt_) ==
  SYSTEM_HEAD \o system_prompt_ \o USER_HEAD \o user_prompt_ \o ASSISTANT_HEAD

preprocess_prompt(system_prompt_, user_prompt_) ==
  SYSTEM_HEAD \o system_prompt_ \o USER_HEAD
    \o IMAGE_NL \o user_prompt_ \o ASSISTANT_HEAD

(***************************************************************************)
(* fine-tuning notebook: patched_fn, the replacement of                    *)
(* llava.train.train._add_speaker_and_signal.  A sentence is a record      *)
(* [from, value]; the loop rewrites sentence["value"] in place, so the     *)
(* call yields both the returned conversation and the source as it is      *)
(* left behind.                                                            *)
(***************************************************************************)
\* a role chosen by comparing 'from' as it is written
role_of_exact(from_str) ==
  IF from_str = STR_human THEN roles[1]
  ELSE IF from_str = STR_gpt THEN roles[2]
  ELSE STR_unknown

role_of(from_str) ==
  IF lower(from_str) = STR_human THEN roles[1]
  ELSE IF lower(from_str) = STR_gpt THEN roles[2]
  ELSE STR_unknown

RECURSIVE patched_loop(_, _, _, _)
patched_loop(conversation_, source_, i, get_conversation_) ==
  IF i > Len(source_) THEN [conversation |-> conversation_, source |-> source_]
  ELSE LET value == EOS_TOKEN \o role_of(source_[i].from) \o source_[i].value
           src   == [source_ EXCEPT ![i].value = value]
       IN  patched_loop(
             IF get_conversation_ THEN conversation_ \o value ELSE conversation_,
             src, i + 1, get_conversation_)

patched_fn_no_eos(header_, source_, get_conversation_) ==
  patched_loop(header_, source_, 1, get_conversation_)

\* a function that builds the conversation from a copy of the sentences
patched_fn_keeps_source(header_, source_, get_conversation_) ==
  LET r == patched_loop(header_, source_, 1, get_conversation_)
  IN  [conversation |-> r.conversation \o EOS_TOKEN, source |-> source_]

patched_fn(header_, source_, get_conversation_) ==
  LET r == patched_loop(header_, source_, 1, get_conversation_)
  IN  [conversation |-> r.conversation \o EOS_TOKEN, source |-> r.source]

(***************************************************************************)
(* fine-tuning notebook: the dataset converter.  A row of the source       *)
(* dataset is [imgid, image, detailed_caption]; an image is [px, mode].    *)
(* Image.save(..., format="JPEG") raises for an image whose mode JPEG      *)
(* cannot hold.  A batch is the slice of rows ds.map hands to preprocess;  *)
(* indexing a column of the batch past its end raises IndexError.          *)
(***************************************************************************)
save_raises(image) == image.mode # "RGB"

human_value_no_image(user_prompt_) == user_prompt_

human_value(user_prompt_) == IMAGE_NL \o user_prompt_

json_record_swapped(imgid, img, detailed_caption, user_prompt_) ==
  [id |-> imgid,
   image |-> img,
   conversations |->
     << [from |-> STR_gpt, value |-> detailed_caption],
        [from |-> STR_human, value |-> human_value(user_prompt_)] >>]

json_record(imgid, img, detailed_caption, user_prompt_) ==
  [id |-> imgid,
   image |-> img,
   conversations |->
     << [from |-> STR_human, value |-> human_value(user_prompt_)],
        [from |-> STR_gpt, value |-> detailed_caption] >>]

\* a save that leaves the id out of the file name
save_file_unnamed(files, img, image) ==
  [n \in (DOMAIN files) \cup {DOT_JPG} |->
     IF n = DOT_JPG THEN image.px ELSE files[n]]

\* the files of llava_dataset/images: file name -> the image saved under it
save_file(files, img, image) ==
  [n \in (DOMAIN files) \cup {img} |-> IF n = img THEN image.px ELSE files[n]]

\* for i in range(batch_size): i runs over 1..batch_size here
RECURSIVE preprocess_loop(_, _, _, _, _, _)
preprocess_loop(batch, batch_size_, user_prompt_, i, json, files) ==
  IF i > batch_size_
    THEN [raised |-> "none", at |-> 0, json |-> json, files |-> files]
  ELSE IF i > Len(batch)
    THEN [raised |-> "IndexError", at |-> i, json |-> json, files |-> files]
  ELSE LET img == str(batch[i].imgid) \o DOT_JPG
       IN  IF save_raises(batch[i].image)
             THEN [raised |-> "OSError", at |-> i, json |-> json, files |-> files]
             ELSE preprocess_loop(
                    batch, batch_size_, user_prompt_, i + 1,
                    Append(json, json_record(batch[i].imgid, img,
                                             batch[i].detailed_caption,
                                             user_prompt_)),
                    save_file(files, img, batch[i].image))

\* a converter that steps over a row whose image cannot be saved
RECURSIVE preprocess_loop_skip(_, _, _, _, _, _)
preprocess_loop_skip(batch, batch_size_, user_prompt_, i, json, files) ==
  IF i > batch_size_ \/ i > Len(batch)
    THEN [raised |-> "none", at |-> 0, json |-> json, files |-> files]
  ELSE LET img == str(batch[i].imgid) \o DOT_JPG
       IN  preprocess_loop_skip(
             batch, batch_size_, user_prompt_, i + 1,
             Append(json, json_record(batch[i].imgid, img,
                                      batch[i].detailed_caption, user_prompt_)),
             IF save_raises(batch[i].image) THEN files
             ELSE save_file(files, img, batch[i].image))

preprocess_skip(batch, batch_size_, user_prompt_, files) ==
  preprocess_loop_skip(batch, batch_size_, user_prompt_, 1, <<>>, files)

preprocess(batch, batch_size_, user_prompt_, files) ==
  preprocess_loop(batch, batch_size_, user_prompt_, 1, <<>>, files)

(***************************************************************************)
(* State.                                                                  *)
(***************************************************************************)
VARIABLES
  \* inference notebook
  inf_pc,            \* the next step of the notebook, "done" or "failed"
  inf_log,           \* the steps that have completed, in order
  inf_error,         \* the step whose exception ended the run, or "none"
  inf_installed,     \* whether the pip installs of the first cell succeeded
  system_prompt,     \* system_prompt of the input cell
  user_prompt,       \* user_prompt of the input cell
  prompt,            \* prompt of the input cell, <<>> before it is built
  generate_calls,    \* number of model.generate calls made
  generate_kwargs,   \* the keyword arguments generation_config gave generate
  \* fine-tuning notebook
  ft_pc,             \* the next step of the notebook, "done" or "failed"
  ft_log,            \* the steps that have completed, in order
  ft_error,          \* [step, kind] of the exception that ended the run
  ft_installed,      \* whether the pip installs of the first cell succeeded
  model,             \* what the name model is bound to
  logged_in,         \* whether notebook_login left a usable hub token
  adapter_dirs,      \* the directories that hold adapter weights
  merge_call,        \* the arguments PeftModel.from_pretrained was given
  saved,             \* what save_pretrained wrote to local directories
  hub,               \* what save_pretrained pushed to the hub
  tune_mm_mlp_adapter,     \* model_args.tune_mm_mlp_adapter
  freeze_mm_mlp_adapter,   \* training_args.freeze_mm_mlp_adapter
  push_to_hub,             \* push_to_hub of the save cell
  trainable,               \* the parameters whose requires_grad is True
  add_speaker_and_signal,  \* what llava_train._add_speaker_and_signal names
  formatted_by,            \* the functions that have formatted an example
  train_calls,             \* number of trainer.train calls made
  \* fine-tuning notebook, dataset cell
  dirs,              \* the directories that exist
  ds_rows,           \* the rows of the source dataset
  batch_size,        \* batch_size of the dataset cell: 1000 there, drawn from
                     \* 1..MaxBatchSize here so that a few rows span batches
  ft_user_prompt,    \* user_prompt of the dataset cell
  map_pos,           \* rows of the batches ds.map has completed
  ds_json,           \* the "json" column of the completed batches
  image_files,       \* llava_dataset/images: file name -> image saved
  data_json,         \* llava_dataset/data.json
  data_json0,        \* data.json as an earlier run left it
  failed_row,        \* the row at which preprocess raised, 0 if none
  \* _add_speaker_and_signal, called on one source list
  header,
  source,
  get_conversation,
  conversation,      \* the value the last call returned
  source_before,     \* source as the last call received it
  calls              \* number of calls made on this source list

infVars == <<inf_pc, inf_log, inf_error, inf_installed, system_prompt,
             user_prompt, prompt, generate_calls, generate_kwargs>>

flagVars == <<tune_mm_mlp_adapter, freeze_mm_mlp_adapter, push_to_hub>>

trainVars == <<trainable, add_speaker_and_signal, formatted_by, train_calls>>

ftVars == <<ft_pc, ft_log, ft_error, ft_installed, model, logged_in,
            adapter_dirs, merge_call, saved, hub, flagVars, trainVars>>

convVars == <<dirs, ds_rows, batch_size, ft_user_prompt, map_pos, ds_json,
              image_files, data_json, data_json0, failed_row>>

fnVars == <<header, source, get_conversation, conversation, source_before,
            calls>>

vars == <<infVars, ftVars, convVars, fnVars>>

(***************************************************************************)
(* Running a notebook: the steps in the order of the cells, and of the     *)
(* statements within a cell.  A statement that raises ends the cell, and   *)
(* with it the run: nothing in either notebook catches an exception.       *)
(***************************************************************************)
Succ(order, step) ==
  LET i == CHOOSE k \in 1..Len(order) : order[k] = step
  IN  IF i = Len(order) THEN "done" ELSE order[i + 1]

on_raise_swallow(order, step) == Succ(order, step)

\* a notebook that runs a failing step again
on_raise_retry(order, step) == step

on_raise(order, step) == "failed"

InfOrder_prompt_first ==
  << "install", "helpers", "download_image", "preprocess_prompt", "load_model",
     "tokenize", "process_images", "generate", "decode" >>

InfOrder ==
  << "install", "helpers", "load_model", "download_image", "preprocess_prompt",
     "tokenize", "process_images", "generate", "decode" >>

(***************************************************************************)
(* inference notebook                                                      *)
(***************************************************************************)
\* step returns (ok) or raises
InfStep(step, ok) ==
  /\ inf_pc = step
  /\ inf_pc' = IF ok THEN Succ(InfOrder, step) ELSE on_raise(InfOrder, step)
  /\ inf_log' = IF ok THEN Append(inf_log, step) ELSE inf_log
  /\ inf_error' = IF ok THEN inf_error ELSE step

\* !pip install ..., !git clone ...: a failing shell command raises nothing
InfInstall ==
  /\ InfStep("install", TRUE)
  /\ inf_installed' \in BOOLEAN
  /\ UNCHANGED <<system_prompt, user_prompt, prompt, generate_calls,
                 generate_kwargs>>
  /\ UNCHANGED <<ftVars, convVars, fnVars>>

\* the imports of the helper cell raise when the packages are missing
InfDefineHelpers ==
  /\ InfStep("helpers", inf_installed)
  /\ UNCHANGED <<inf_installed, system_prompt, user_prompt, prompt,
                 generate_calls, generate_kwargs>>
  /\ UNCHANGED <<ftVars, convVars, fnVars>>

\* load_pretrained_model(model_path, None, "llava_llama", quantization_config)
InfLoadModel ==
  /\ \E ok \in BOOLEAN : InfStep("load_model", ok)
  /\ UNCHANGED <<inf_installed, system_prompt, user_prompt, prompt,
                 generate_calls, generate_kwargs>>
  /\ UNCHANGED <<ftVars, convVars, fnVars>>

\* image = download_image(image_url)
InfDownloadImage ==
  /\ \E ok \in BOOLEAN : InfStep("download_image", ok)
  /\ UNCHANGED <<inf_installed, system_prompt, user_prompt, prompt,
                 generate_calls, generate_kwargs>>
  /\ UNCHANGED <<ftVars, convVars, fnVars>>

\* prompt = preprocess_prompt(system_prompt, user_prompt)
InfPreprocessPrompt ==
  /\ InfStep("preprocess_prompt", TRUE)
  /\ prompt' = preprocess_prompt(system_prompt, user_prompt)
  /\ UNCHANGED <<inf_installed, system_prompt, user_prompt, generate_calls,
                 generate_kwargs>>
  /\ UNCHANGED <<ftVars, convVars, fnVars>>

\* inference(): tokenizer_image_token(prompt, tokenizer, ...)
InfTokenize ==
  /\ \E ok \in BOOLEAN : InfStep("tokenize", ok)
  /\ UNCHANGED <<inf_installed, system_prompt, user_prompt, prompt,
                 generate_calls, generate_kwargs>>
  /\ UNCHANGED <<ftVars, convVars, fnVars>>

\* inference(): process_images([image], image_processor, model.config)
InfProcessImages ==
  /\ \E ok \in BOOLEAN : InfStep("process_images", ok)
  /\ UNCHANGED <<inf_installed, system_prompt, user_prompt, prompt,
                 generate_calls, generate_kwargs>>
  /\ UNCHANGED <<ftVars, convVars, fnVars>>

\* a generation config that sets a sampling temperature
generation_config_temperature ==
  [do_sample |-> FALSE, max_new_tokens |-> 256, temperature |-> 1]

\* generation_config = dict(do_sample=False, max_new_tokens=256)
generation_config == [do_sample |-> FALSE, max_new_tokens |-> 256]

\* inference(): model.generate(input_ids, images=..., **generation_config)
InfGenerate ==
  /\ \E ok \in BOOLEAN : InfStep("generate", ok)
  /\ generate_calls' = generate_calls + 1
  /\ generate_kwargs' = generation_config
  /\ UNCHANGED <<inf_installed, system_prompt, user_prompt, prompt>>
  /\ UNCHANGED <<ftVars, convVars, fnVars>>

\* inference(): tokenizer.batch_decode(output_ids, skip_special_tokens=True)
InfDecode ==
  /\ \E ok \in BOOLEAN : InfStep("decode", ok)
  /\ UNCHANGED <<inf_installed, system_prompt, user_prompt, prompt,
                 generate_calls, generate_kwargs>>
  /\ UNCHANGED <<ftVars, convVars, fnVars>>

InfNext ==
  \/ InfInstall
  \/ InfDefineHelpers
  \/ InfLoadModel
  \/ InfDownloadImage
  \/ InfPreprocessPrompt
  \/ InfTokenize
  \/ InfProcessImages
  \/ InfGenerate
  \/ InfDecode

(***************************************************************************)
(* fine-tuning notebook                                                    *)
(***************************************************************************)
model_path == "ytu-ce-cosmos/Turkish-LLaVA-v0.1"

\* a path is the sequence of its components
dataset_dir == <<"llava_dataset">>

\* "llava_dataset/images/", the directory preprocess saves into
images_dir == <<"llava_dataset", "images">>

\* DataArguments(image_folder=f"{dataset_dir}/images")
image_folder == Append(dataset_dir, "images")

output_dir == "output"

merged_path == "merged_output"

repo_id == "atasoglu/Turkish-LLaVA-v0.1-ft"

\* TrainingArguments(max_steps=1000, save_steps=100, save_total_limit=5)
max_steps == 1000

save_steps == 100

save_total_limit == 5

FtOrder_merge_before_train ==
  << "install", "config", "load_model", "lora", "align", "dtypes",
     "prepare_path", "load_dataset", "map", "write_json",
     "patch", "data_module", "inspect", "login", "merge", "train",
     "save_model", "save_tokenizer", "save_image_processor" >>

FtOrder_patch_after_inspect ==
  << "install", "config", "load_model", "lora", "align", "dtypes",
     "prepare_path", "load_dataset", "map", "write_json",
     "data_module", "inspect", "patch", "train", "login", "merge",
     "save_model", "save_tokenizer", "save_image_processor" >>

FtOrder ==
  << "install", "config", "load_model", "lora", "align", "dtypes",
     "prepare_path", "load_dataset", "map", "write_json",
     "patch", "data_module", "inspect", "train", "login", "merge",
     "save_model", "save_tokenizer", "save_image_processor" >>

\* a system string that ends in a blank line
default_conversation_system_nl(system_prompt_) ==
  SYSTEM_HEAD \o system_prompt_ \o <<"\n", "\n">>

\* conv.default_conversation.system:
\* f"<|begin_of_text|><|start_header_id|>system<|end_header_id|>\n\n{system_prompt}"
default_conversation_system(system_prompt_) == SYSTEM_HEAD \o system_prompt_

NoError == [step |-> "none", kind |-> "none"]

NoModel == [kind |-> "none", base |-> "", lora |-> FALSE, trained |-> FALSE]

NoMerge ==
  [called |-> FALSE,
   base |-> [type |-> "none", value |-> ""],
   adapters |-> [dir |-> "", checkpoint |-> 0]]

FtStep(step, ok) ==
  /\ ft_pc = step
  /\ ft_pc' = IF ok THEN Succ(FtOrder, step) ELSE on_raise(FtOrder, step)
  /\ ft_log' = IF ok THEN Append(ft_log, step) ELSE ft_log
  /\ ft_error' = IF ok THEN ft_error ELSE [step |-> step, kind |-> "Exception"]

\* !pip install ..., !git clone ...: a failing shell command raises nothing
FtInstall ==
  /\ FtStep("install", TRUE)
  /\ ft_installed' \in BOOLEAN
  /\ UNCHANGED <<model, logged_in, adapter_dirs, merge_call, saved, hub>>
  /\ UNCHANGED <<flagVars, trainVars>>
  /\ UNCHANGED <<infVars, convVars, fnVars>>

\* the configuration cell; its imports raise when the packages are missing.
\* ModelArguments(...) and TrainingArguments(...) give the two projector flags
\* their values: False unless the call names them, and the alignment cell is
\* written for either value, so both are drawn here.
FtConfig ==
  /\ FtStep("config", ft_installed)
  /\ IF ft_installed
       THEN /\ tune_mm_mlp_adapter' \in BOOLEAN
            /\ freeze_mm_mlp_adapter' \in BOOLEAN
       ELSE UNCHANGED <<tune_mm_mlp_adapter, freeze_mm_mlp_adapter>>
  /\ UNCHANGED <<ft_installed, model, logged_in, adapter_dirs, merge_call,
                 saved, hub>>
  /\ UNCHANGED <<push_to_hub, trainVars>>
  /\ UNCHANGED <<infVars, convVars, fnVars>>

\* tokenizer, model, image_processor, context_len = load_pretrained_model(...)
FtLoadModel ==
  /\ \E ok \in BOOLEAN :
       /\ FtStep("load_model", ok)
       /\ model' = IF ok
                     THEN [kind |-> "llava", base |-> model_path,
                           lora |-> FALSE, trained |-> FALSE]
                     ELSE model
  /\ UNCHANGED <<ft_installed, logged_in, adapter_dirs, merge_call, saved, hub>>
  /\ UNCHANGED <<flagVars, trainVars>>
  /\ UNCHANGED <<infVars, convVars, fnVars>>

\* the parameters of the model: the language model's weights, the adapters
\* attached to them, the vision tower and the two layers of the projector
ProjectorParams == {"mm_projector.0", "mm_projector.2"}

LoraParams == {"lora_A", "lora_B"}

Params == {"base", "vision_tower"} \cup LoraParams \cup ProjectorParams

\* model = prepare_model_for_kbit_training(model, ...)
\* model = get_peft_model(model, lora_config): the adapters are the trainable
\* parameters of the model it returns
FtLora ==
  /\ \E ok \in BOOLEAN :
       /\ FtStep("lora", ok)
       /\ model' = IF ok THEN [model EXCEPT !.kind = "peft", !.lora = TRUE]
                   ELSE model
       /\ trainable' = IF ok THEN LoraParams ELSE trainable
  /\ UNCHANGED <<ft_installed, logged_in, adapter_dirs, merge_call, saved, hub>>
  /\ UNCHANGED <<flagVars, add_speaker_and_signal, formatted_by, train_calls>>
  /\ UNCHANGED <<infVars, convVars, fnVars>>

\* model.requires_grad_(False)
requires_grad_false(trainable_) == {}

\* the two blocks in the other order: freeze, then tune
align_trainable_freeze_first(trainable_, tune, freeze) ==
  LET frozen == IF freeze THEN trainable_ \ ProjectorParams ELSE trainable_
  IN  IF tune THEN requires_grad_false(frozen) \cup ProjectorParams ELSE frozen

\* if model_args.tune_mm_mlp_adapter:
\*     model.requires_grad_(False)
\*     for p in model.get_model().mm_projector.parameters(): p.requires_grad = True
\* if training_args.freeze_mm_mlp_adapter:
\*     for p in model.get_model().mm_projector.parameters(): p.requires_grad = False
align_trainable(trainable_, tune, freeze) ==
  LET tuned == IF tune THEN requires_grad_false(trainable_) \cup ProjectorParams
               ELSE trainable_
  IN  IF freeze THEN tuned \ ProjectorParams ELSE tuned

\* the alignment cell: vision tower, projector flags, initialize_vision_tokenizer.
\* The calls before the two blocks and the calls after them may raise.
FtAlign ==
  /\ \E ok, flags_done \in BOOLEAN :
       /\ ok => flags_done
       /\ FtStep("align", ok)
       /\ trainable' = IF flags_done
                         THEN align_trainable(trainable, tune_mm_mlp_adapter,
                                              freeze_mm_mlp_adapter)
                         ELSE trainable
  /\ UNCHANGED <<ft_installed, model, logged_in, adapter_dirs, merge_call,
                 saved, hub>>
  /\ UNCHANGED <<flagVars, add_speaker_and_signal, formatted_by, train_calls>>
  /\ UNCHANGED <<infVars, convVars, fnVars>>

\* the dtype cell: module.to(...) over model.named_modules()
FtDtypes ==
  /\ \E ok \in BOOLEAN : FtStep("dtypes", ok)
  /\ UNCHANGED <<ft_installed, model, logged_in, adapter_dirs, merge_call,
                 saved, hub>>
  /\ UNCHANGED <<flagVars, trainVars>>
  /\ UNCHANGED <<infVars, convVars, fnVars>>

(***************************************************************************)
(* fine-tuning notebook, dataset cell                                      *)
(***************************************************************************)
NoFile == [exists |-> FALSE, records |-> <<>>]

\* a function that makes the dataset directory alone
prepare_dataset_path_no_images(d, existing) ==
  IF d \in existing THEN existing ELSE existing \cup {d}

\* prepare_dataset_path(dataset_dir), on the set of existing directories
prepare_dataset_path(d, existing) ==
  LET d1 == IF d \in existing THEN existing ELSE existing \cup {d}
      im == Append(d, "images")
  IN  IF im \in d1 THEN d1 ELSE d1 \cup {im}

Min(a, b) == IF a < b THEN a ELSE b

\* the slice of rows ds.map hands to preprocess next
next_batch(rows, pos, size) == SubSeq(rows, pos + 1, Min(pos + size, Len(rows)))

\* prepare_dataset_path(dataset_dir)
FtPreparePath ==
  /\ FtStep("prepare_path", TRUE)
  /\ dirs' = prepare_dataset_path(dataset_dir, dirs)
  /\ UNCHANGED <<ft_installed, model, logged_in, adapter_dirs, merge_call,
                 saved, hub>>
  /\ UNCHANGED <<ds_rows, batch_size, ft_user_prompt, map_pos, ds_json,
                 image_files, data_json, data_json0, failed_row>>
  /\ UNCHANGED <<flagVars, trainVars>>
  /\ UNCHANGED <<infVars, fnVars>>

\* ds = load_dataset("atasoglu/flickr8k-turkish-detailed-captions", split="train")
FtLoadDataset ==
  /\ \E ok \in BOOLEAN : FtStep("load_dataset", ok)
  /\ UNCHANGED <<ft_installed, model, logged_in, adapter_dirs, merge_call,
                 saved, hub>>
  /\ UNCHANGED <<flagVars, trainVars>>
  /\ UNCHANGED <<infVars, convVars, fnVars>>

\* ds = ds.map(preprocess, batched=True, batch_size=batch_size, fn_kwargs=...):
\* one call of preprocess on the next batch.  The column "json" of a batch
\* joins the dataset when preprocess returns; when it raises, ds.map raises.
FtMapBatch ==
  /\ ft_pc = "map"
  /\ map_pos < Len(ds_rows)
  /\ LET batch == next_batch(ds_rows, map_pos, batch_size)
         r     == preprocess(batch, batch_size, ft_user_prompt, image_files)
         ok    == r.raised = "none"
         last  == map_pos + Len(batch) = Len(ds_rows)
     IN  /\ image_files' = r.files
         /\ ds_json' = IF ok THEN ds_json \o r.json ELSE ds_json
         /\ map_pos' = IF ok THEN map_pos + Len(batch) ELSE map_pos
         /\ failed_row' = IF ok THEN failed_row ELSE map_pos + r.at
         /\ ft_pc' = IF ~ok THEN on_raise(FtOrder, "map")
                     ELSE IF last THEN Succ(FtOrder, "map") ELSE "map"
         /\ ft_log' = IF ok /\ last THEN Append(ft_log, "map") ELSE ft_log
         /\ ft_error' = IF ok THEN ft_error
                        ELSE [step |-> "map", kind |-> r.raised]
  /\ UNCHANGED <<ft_installed, model, logged_in, adapter_dirs, merge_call,
                 saved, hub>>
  /\ UNCHANGED <<dirs, ds_rows, batch_size, ft_user_prompt, data_json,
                 data_json0>>
  /\ UNCHANGED <<flagVars, trainVars>>
  /\ UNCHANGED <<infVars, fnVars>>

\* with open(f"{dataset_dir}/data.json", "w") as f:
\*     f.write(json.dumps(ds["json"], indent=2, ensure_ascii=False))
FtWriteJson ==
  /\ FtStep("write_json", TRUE)
  /\ data_json' = [exists |-> TRUE, records |-> ds_json]
  /\ UNCHANGED <<ft_installed, model, logged_in, adapter_dirs, merge_call,
                 saved, hub>>
  /\ UNCHANGED <<dirs, ds_rows, batch_size, ft_user_prompt, map_pos, ds_json,
                 image_files, data_json0, failed_row>>
  /\ UNCHANGED <<flagVars, trainVars>>
  /\ UNCHANGED <<infVars, fnVars>>

ConvNext ==
  \/ FtPreparePath
  \/ FtLoadDataset
  \/ FtMapBatch
  \/ FtWriteJson

(***************************************************************************)
(* fine-tuning notebook, from the patch to the save cell                   *)
(***************************************************************************)
\* llava_train._add_speaker_and_signal = patched_fn
FtPatch ==
  /\ FtStep("patch", TRUE)
  /\ add_speaker_and_signal' = "patched_fn"
  /\ UNCHANGED <<ft_installed, model, logged_in, adapter_dirs, merge_call,
                 saved, hub>>
  /\ UNCHANGED <<flagVars, trainable, formatted_by, train_calls>>
  /\ UNCHANGED <<infVars, convVars, fnVars>>

\* Building an example of the lazily preprocessed dataset formats its
\* conversation with the function llava_train._add_speaker_and_signal names
\* at that moment.  A step that returns has built its examples; one that
\* raises may have built some.
build_examples(ok) ==
  \E built \in BOOLEAN :
    /\ ok => built
    /\ formatted_by' = IF built THEN formatted_by \cup {add_speaker_and_signal}
                       ELSE formatted_by

\* data_module = make_supervised_data_module(tokenizer=..., data_args=...):
\* with lazy_preprocess=True it reads data.json and builds no example
FtDataModule ==
  /\ \E ok \in BOOLEAN : FtStep("data_module", ok)
  /\ UNCHANGED <<ft_installed, model, logged_in, adapter_dirs, merge_call,
                 saved, hub>>
  /\ UNCHANGED <<flagVars, trainVars>>
  /\ UNCHANGED <<infVars, convVars, fnVars>>

\* data_module["train_dataset"][0]["input_ids"], tokenizer.decode(...)
FtInspect ==
  /\ \E ok \in BOOLEAN : FtStep("inspect", ok) /\ build_examples(ok)
  /\ UNCHANGED <<ft_installed, model, logged_in, adapter_dirs, merge_call,
                 saved, hub>>
  /\ UNCHANGED <<flagVars, trainable, add_speaker_and_signal, train_calls>>
  /\ UNCHANGED <<infVars, convVars, fnVars>>

\* The checkpoints a run that got as far as step `last` leaves behind:
\* save_strategy="steps" writes <output_dir>/checkpoint-<step> every save_steps
\* steps, and save_total_limit keeps the newest of them.
checkpoint_steps(last) ==
  LET written == {s \in 1..last : s % save_steps = 0}
  IN  {s \in written : Cardinality({u \in written : u > s}) < save_total_limit}

checkpoint_dirs(last) ==
  {[dir |-> output_dir, checkpoint |-> s] : s \in checkpoint_steps(last)}

\* trainer = LLaVATrainer(model=model, tokenizer=..., args=training_args, ...)
\* trainer.train()
FtTrain ==
  /\ \/ /\ FtStep("train", TRUE)
        /\ build_examples(TRUE)
        /\ model' = [model EXCEPT !.trained = TRUE]
        /\ adapter_dirs' = adapter_dirs \cup checkpoint_dirs(max_steps)
     \/ /\ FtStep("train", FALSE)
        /\ build_examples(FALSE)
        /\ model' = model
        /\ \E n \in 0..(max_steps \div save_steps) :
             adapter_dirs' = adapter_dirs \cup checkpoint_dirs(n * save_steps)
  /\ train_calls' = train_calls + 1
  /\ UNCHANGED <<ft_installed, logged_in, merge_call, saved, hub>>
  /\ UNCHANGED <<flagVars, trainable, add_speaker_and_signal>>
  /\ UNCHANGED <<infVars, convVars, fnVars>>

\* notebook_login(): shows the login widget and returns
FtLogin ==
  /\ FtStep("login", TRUE)
  /\ logged_in' \in BOOLEAN
  /\ UNCHANGED <<ft_installed, model, adapter_dirs, merge_call, saved, hub>>
  /\ UNCHANGED <<flagVars, trainVars>>
  /\ UNCHANGED <<infVars, convVars, fnVars>>

\* the arguments of PeftModel.from_pretrained(model_path, output_dir):
\* the name model_path is bound to a str, the name model to the loaded model
from_pretrained_base == [type |-> "str", value |-> model_path]

from_pretrained_adapters == [dir |-> output_dir, checkpoint |-> 0]

\* model = PeftModel.from_pretrained(model_path, output_dir)
\* model = model.merge_and_unload().bfloat16()
FtMerge ==
  /\ \E ok \in BOOLEAN :
       /\ FtStep("merge", ok)
       /\ model' = IF ok
                     THEN [kind |-> "merged", base |-> from_pretrained_base.value,
                           lora |-> FALSE, trained |-> model.trained]
                     ELSE model
  /\ merge_call' = [called |-> TRUE,
                    base |-> from_pretrained_base,
                    adapters |-> from_pretrained_adapters]
  /\ UNCHANGED <<ft_installed, logged_in, adapter_dirs, saved, hub>>
  /\ UNCHANGED <<flagVars, trainVars>>
  /\ UNCHANGED <<infVars, convVars, fnVars>>

\* what a save_pretrained call uploads: with push_to_hub_ set, the component,
\* to the repository repo_id_
pushed_always(component, repo_id_, push_to_hub_) ==
  {[component |-> component, repo |-> repo_id_]}

pushed(component, repo_id_, push_to_hub_) ==
  IF push_to_hub_ THEN {[component |-> component, repo |-> repo_id_]} ELSE {}

\* x.save_pretrained(merged_path, repo_id=repo_id, push_to_hub=push_to_hub):
\* writes the files to merged_path, then uploads them when push_to_hub is set.
\* It raises before anything is written, or after writing when the upload
\* fails; the upload cannot succeed without a hub token.
SavePretrained(step, component, content, push_to_hub_) ==
  \E outcome \in {"ok", "raise_save", "raise_push"} :
    /\ outcome = "ok" => (push_to_hub_ => logged_in)
    /\ outcome = "raise_push" => push_to_hub_
    /\ FtStep(step, outcome = "ok")
    /\ saved' = IF outcome = "raise_save" THEN saved
                ELSE saved \cup {[component |-> component, path |-> merged_path,
                                  content |-> content]}
    /\ hub' = IF outcome = "ok"
                THEN hub \cup pushed(component, repo_id, push_to_hub_)
                ELSE hub

\* push_to_hub = True, then model.save_pretrained(...).  The three calls of
\* the cell take the flag from the name push_to_hub; the notebook assigns True
\* and offers the upload as optional, so both values are drawn here.
FtSaveModel ==
  /\ \E p \in BOOLEAN :
       /\ push_to_hub' = p
       /\ SavePretrained("save_model", "model", model.kind, p)
  /\ UNCHANGED <<ft_installed, model, logged_in, adapter_dirs, merge_call>>
  /\ UNCHANGED <<tune_mm_mlp_adapter, freeze_mm_mlp_adapter, trainVars>>
  /\ UNCHANGED <<infVars, convVars, fnVars>>

FtSaveTokenizer ==
  /\ SavePretrained("save_tokenizer", "tokenizer", "tokenizer", push_to_hub)
  /\ UNCHANGED <<ft_installed, model, logged_in, adapter_dirs, merge_call>>
  /\ UNCHANGED <<flagVars, trainVars>>
  /\ UNCHANGED <<infVars, convVars, fnVars>>

FtSaveImageProcessor ==
  /\ SavePretrained("save_image_processor", "image_processor",
                    "image_processor", push_to_hub)
  /\ UNCHANGED <<ft_installed, model, logged_in, adapter_dirs, merge_call>>
  /\ UNCHANGED <<flagVars, trainVars>>
  /\ UNCHANGED <<infVars, convVars, fnVars>>

FtNext ==
  \/ FtInstall
  \/ FtConfig
  \/ FtLoadModel
  \/ FtLora
  \/ FtAlign
  \/ FtDtypes
  \/ ConvNext
  \/ FtPatch
  \/ FtDataModule
  \/ FtInspect
  \/ FtTrain
  \/ FtLogin
  \/ FtMerge
  \/ FtSaveModel
  \/ FtSaveTokenizer
  \/ FtSaveImageProcessor

(***************************************************************************)
(* _add_speaker_and_signal, as the library calls it on a source list       *)
(***************************************************************************)
CallPatchedFn ==
  /\ calls < MaxCalls
  /\ LET r == patched_fn(header, source, get_conversation)
     IN  /\ conversation' = r.conversation
         /\ source' = r.source
  /\ source_before' = source
  /\ calls' = calls + 1
  /\ UNCHANGED <<header, get_conversation>>
  /\ UNCHANGED <<infVars, ftVars, convVars>>

(***************************************************************************)
(* Inputs.                                                                 *)
(***************************************************************************)
Image(p, m) == [px |-> p, mode |-> m]

Row(id, p, m) == [imgid |-> id, image |-> Image(p, m), detailed_caption |-> <<p>>]

\* rows of a source dataset: ids of one and of two digits, which may repeat,
\* two pictures with their captions, and an image mode JPEG cannot hold
ConvRows == {Row(id, p, m) : id \in {1, 12}, p \in {"a", "b"}, m \in {"RGB", "RGBA"}}

\* the train split is not empty
ConvDatasets == UNION {[1..n -> ConvRows] : n \in 1..MaxRows}

\* datasets with ids 1..n, at most one of whose images cannot be saved
PipelineDatasets ==
  {[i \in 1..n |-> Row(i, "a", IF i = bad THEN "RGBA" ELSE "RGB")] :
     n \in 1..MaxRows, bad \in 0..MaxRows}

UserPrompts == {<<>>, <<"a", "b">>}

\* data.json as an earlier run of the notebook may have left it
OldFile ==
  [exists |-> TRUE,
   records |-> <<json_record(7, str(7) \o DOT_JPG, <<"o", "l", "d">>, <<>>)>>]

DirStates == {{}, {dataset_dir}, {dataset_dir, images_dir}}

Froms ==
  {STR_human, <<"H", "u", "m", "a", "n">>, STR_gpt, <<"G", "P", "T">>,
   <<"s", "y", "s", "t", "e", "m">>}

Sentences == [from : Froms, value : {<<"a">>, <<"b">>}]

Sources == UNION {[1..n -> Sentences] : n \in 0..MaxSentences}

Headers == {<<>>, SYSTEM_HEAD \o <<"a">>}

\* captions of a row: empty, plain, and one that starts like a special token
Captions == {<<>>, <<"a">>, <<"<", "a">>}

(***************************************************************************)
(* Initial states.                                                         *)
(***************************************************************************)
InfStart ==
  /\ inf_pc = "install"
  /\ inf_log = <<>>
  /\ inf_error = "none"
  /\ inf_installed = FALSE
  /\ prompt = <<>>
  /\ generate_calls = 0
  /\ generate_kwargs = <<>>

FtStart ==
  /\ ft_pc = "install"
  /\ ft_log = <<>>
  /\ ft_error = NoError
  /\ ft_installed = FALSE
  /\ model = NoModel
  /\ logged_in = FALSE
  /\ adapter_dirs = {}
  /\ merge_call = NoMerge
  /\ saved = {}
  /\ hub = {}
  /\ tune_mm_mlp_adapter = FALSE
  /\ freeze_mm_mlp_adapter = FALSE
  /\ push_to_hub = FALSE
  /\ trainable = {}
  /\ add_speaker_and_signal = "_add_speaker_and_signal"
  /\ formatted_by = {}
  /\ train_calls = 0

ConvStart ==
  /\ map_pos = 0
  /\ ds_json = <<>>
  /\ image_files = <<>>
  /\ data_json = data_json0
  /\ failed_row = 0

FnStart ==
  /\ conversation = <<>>
  /\ source_before = source
  /\ calls = 0

FnUnused ==
  /\ header = <<>>
  /\ source = <<>>
  /\ get_conversation = TRUE
  /\ FnStart

\* both notebooks, each run from its first cell
Init ==
  /\ InfStart
  /\ system_prompt = <<"a">>
  /\ user_prompt = <<"b">>
  /\ FtStart
  /\ dirs \in DirStates
  /\ ds_rows \in PipelineDatasets
  /\ batch_size \in 1..MaxBatchSize
  /\ ft_user_prompt = <<"b">>
  /\ data_json0 = NoFile
  /\ ConvStart
  /\ FnUnused

Next == InfNext \/ FtNext

Spec == Init /\ [][Next]_vars

\* Run cell by cell to the end: a notebook whose next step is pending takes
\* it, and the call it makes returns or raises.
SpecFair == Spec /\ WF_vars(InfNext) /\ WF_vars(FtNext)

\* preprocess_prompt on every pair of prompts
InitPrompt ==
  /\ inf_pc = "preprocess_prompt"
  /\ inf_log = SubSeq(InfOrder, 1, 4)
  /\ inf_error = "none"
  /\ inf_installed = TRUE
  /\ prompt = <<>>
  /\ generate_calls = 0
  /\ generate_kwargs = <<>>
  /\ system_prompt \in Texts
  /\ user_prompt \in Texts
  /\ FtStart
  /\ dirs = {}
  /\ ds_rows = <<Row(1, "a", "RGB")>>
  /\ batch_size = 1
  /\ ft_user_prompt = <<>>
  /\ data_json0 = NoFile
  /\ ConvStart
  /\ FnUnused

SpecPrompt == InitPrompt /\ [][InfPreprocessPrompt]_vars

\* the dataset cell on every dataset, batch size and user prompt
InitConv ==
  /\ InfStart
  /\ system_prompt = <<>>
  /\ user_prompt = <<>>
  /\ ft_pc = "prepare_path"
  /\ ft_log = SubSeq(FtOrder, 1, 6)
  /\ ft_error = NoError
  /\ ft_installed = TRUE
  /\ model = [kind |-> "peft", base |-> model_path, lora |-> TRUE,
              trained |-> FALSE]
  /\ logged_in = FALSE
  /\ adapter_dirs = {}
  /\ merge_call = NoMerge
  /\ saved = {}
  /\ hub = {}
  /\ tune_mm_mlp_adapter = FALSE
  /\ freeze_mm_mlp_adapter = FALSE
  /\ push_to_hub = FALSE
  /\ trainable = {}
  /\ add_speaker_and_signal = "_add_speaker_and_signal"
  /\ formatted_by = {}
  /\ train_calls = 0
  /\ dirs \in DirStates
  /\ ds_rows \in ConvDatasets
  /\ batch_size \in 1..MaxBatchSize
  /\ ft_user_prompt \in UserPrompts
  /\ data_json0 \in {NoFile, OldFile}
  /\ ConvStart
  /\ FnUnused

SpecConv == InitConv /\ [][ConvNext]_vars

\* _add_speaker_and_signal on every header and source list
InitPatched ==
  /\ InfStart
  /\ system_prompt = <<>>
  /\ user_prompt = <<>>
  /\ FtStart
  /\ dirs = {}
  /\ ds_rows = <<Row(1, "a", "RGB")>>
  /\ batch_size = 1
  /\ ft_user_prompt = <<>>
  /\ data_json0 = NoFile
  /\ ConvStart
  /\ header \in Headers
  /\ source \in Sources
  /\ get_conversation \in BOOLEAN
  /\ FnStart

SpecPatched == InitPatched /\ [][CallPatchedFn]_vars

\* _add_speaker_and_signal on a record of the converter, with the system
\* string of the default conversation as the header
InitTrainText ==
  /\ InfStart
  /\ system_prompt \in Texts
  /\ user_prompt = <<>>
  /\ FtStart
  /\ dirs = {}
  /\ \E c \in Captions :
       ds_rows = <<[imgid |-> 1, image |-> Image("a", "RGB"),
                    detailed_caption |-> c]>>
  /\ batch_size = 1
  /\ ft_user_prompt \in Texts
  /\ data_json0 = NoFile
  /\ ConvStart
  /\ header = default_conversation_system(system_prompt)
  /\ source = json_record(ds_rows[1].imgid, str(ds_rows[1].imgid) \o DOT_JPG,
                          ds_rows[1].detailed_caption,
                          ft_user_prompt).conversations
  /\ get_conversation = TRUE
  /\ FnStart

SpecTrainText == InitTrainText /\ [][CallPatchedFn]_vars

(***************************************************************************)
(* Properties.                                                             *)
(***************************************************************************)
BEGIN_OF_TEXT ==
  <<"<", "|", "b", "e", "g", "i", "n", "_", "o", "f", "_", "t", "e", "x", "t",
    "|", ">">>

START_HEADER_ID ==
  <<"<", "|", "s", "t", "a", "r", "t", "_", "h", "e", "a", "d", "e", "r", "_",
    "i", "d", "|", ">">>

END_HEADER_ID ==
  <<"<", "|", "e", "n", "d", "_", "h", "e", "a", "d", "e", "r", "_", "i", "d",
    "|", ">">>

EOT_ID == <<"<", "|", "e", "o", "t", "_", "i", "d", "|", ">">>

IMAGE_TOKEN == <<"<", "i", "m", "a", "g", "e", ">">>

NL == <<"\n">>

RoleHeader(name) == START_HEADER_ID \o name \o END_HEADER_ID \o NL \o NL

EndsWith(s, suffix) ==
  /\ Len(s) >= Len(suffix)
  /\ SubSeq(s, Len(s) - Len(suffix) + 1, Len(s)) = suffix

Contains(s, sub) ==
  \E i \in 0..(Len(s) - Len(sub)) : SubSeq(s, i + 1, i + Len(sub)) = sub

IsPrefix(s, full) == Len(s) <= Len(full) /\ s = SubSeq(full, 1, Len(s))

RECURSIVE Restrict(_, _)
Restrict(s, keep) ==
  IF s = <<>> THEN <<>>
  ELSE IF Head(s) \in keep THEN <<Head(s)>> \o Restrict(Tail(s), keep)
  ELSE Restrict(Tail(s), keep)

Range(s) == {s[i] : i \in 1..Len(s)}

\* C1: once the prompt is built it is exactly
\* '<|begin_of_text|><|start_header_id|>system<|end_header_id|>\n\n' + system
\* + '<|eot_id|><|start_header_id|>user<|end_header_id|>\n\n' + '<image>\n'
\* + user + '<|eot_id|><|start_header_id|>assistant<|end_header_id|>\n\n',
\* a value fixed by the two arguments alone; building it is possible for
\* every pair of strings and raises nothing.
C1_PromptExact ==
  /\ inf_pc = "preprocess_prompt" => ENABLED InfPreprocessPrompt
  /\ "preprocess_prompt" \in Range(inf_log) =>
       /\ prompt = BEGIN_OF_TEXT \o RoleHeader(<<"s", "y", "s", "t", "e", "m">>)
                     \o system_prompt
                     \o EOT_ID \o RoleHeader(<<"u", "s", "e", "r">>)
                     \o IMAGE_TOKEN \o NL \o user_prompt
                     \o EOT_ID
                     \o RoleHeader(<<"a", "s", "s", "i", "s", "t", "a", "n", "t">>)
       /\ inf_error = "none"
       /\ inf_pc # "failed"

C1_Witness ==
  /\ inf_pc = "tokenize"
  /\ Len(system_prompt) = MaxLen
  /\ Len(user_prompt) = MaxLen
  /\ system_prompt # user_prompt

\* what the claims call a row whose image cannot be saved
Unsaveable(rows) == {i \in 1..Len(rows) : rows[i].image.mode = "RGBA"}

DistinctIds(rows) ==
  \A i, j \in 1..Len(rows) : rows[i].imgid = rows[j].imgid => i = j

\* the dataset cell has run to its end, or has stopped in an exception
ConversionOver == ft_pc \in {"patch", "failed"}

\* '<imgid>.jpg' for the ids the datasets use
JpgName(id) ==
  CASE id = 1  -> <<"1", ".", "j", "p", "g">>
    [] id = 2  -> <<"2", ".", "j", "p", "g">>
    [] id = 3  -> <<"3", ".", "j", "p", "g">>
    [] id = 4  -> <<"4", ".", "j", "p", "g">>
    [] id = 12 -> <<"1", "2", ".", "j", "p", "g">>

\* C2: for a dataset of any number N of rows (distinct ids, every image
\* saveable, the dataset loaded), the conversion completes with exactly N
\* records in data.json and exactly N saved image files.
C2_OneRecordAndImagePerRow ==
  ( /\ ConversionOver
    /\ ft_error.step # "load_dataset"
    /\ Unsaveable(ds_rows) = {}
    /\ DistinctIds(ds_rows) )
  => /\ ft_pc = "patch"
     /\ data_json.exists
     /\ Len(data_json.records) = Len(ds_rows)
     /\ Cardinality(DOMAIN image_files) = Len(ds_rows)

\* C3: every record the converter emits has as the value of its human turn
\* '<image>\n' followed by the user prompt, so it contains '<image>'.
C3_HumanTurnHasImageToken ==
  /\ \A i \in 1..Len(ds_json) :
       /\ ds_json[i].conversations[1].value = IMAGE_TOKEN \o NL \o ft_user_prompt
       /\ Contains(ds_json[i].conversations[1].value, IMAGE_TOKEN)
  /\ ft_pc = "patch" =>
       \A i \in 1..Len(data_json.records) :
         /\ data_json.records[i].conversations[1].value
              = IMAGE_TOKEN \o NL \o ft_user_prompt
         /\ Contains(data_json.records[i].conversations[1].value, IMAGE_TOKEN)

C3_Witness ==
  /\ ft_pc = "patch"
  /\ Len(data_json.records) >= 2
  /\ ft_user_prompt # <<>>

\* C4: the i-th record emitted has id equal to the i-th row's imgid, image
\* equal to '<imgid>.jpg', and exactly two turns: first one from 'human',
\* then one from 'gpt' whose value is the row's detailed_caption.
C4_RecordPerRowInOrder ==
  \A i \in 1..Len(ds_json) :
    /\ i <= Len(ds_rows)
    /\ ds_json[i].id = ds_rows[i].imgid
    /\ ds_json[i].image = JpgName(ds_rows[i].imgid)
    /\ Len(ds_json[i].conversations) = 2
    /\ ds_json[i].conversations[1].from = <<"h", "u", "m", "a", "n">>
    /\ ds_json[i].conversations[2].from = <<"g", "p", "t">>
    /\ ds_json[i].conversations[2].value = ds_rows[i].detailed_caption

C4_Witness ==
  /\ Len(ds_json) >= 2
  /\ ds_rows[1].imgid = 12
  /\ ds_rows[2].imgid = 1
  /\ ds_rows[1].detailed_caption # ds_rows[2].detailed_caption

\* C10: when some row's image cannot be saved, no record exists for the first
\* such row or for any row after it, data.json is never written (it stays as
\* the earlier run left it), and the conversion ends failed, never completed.
C10_SaveFailureEmitsNothing ==
  Unsaveable(ds_rows) # {} =>
    LET k == CHOOSE i \in Unsaveable(ds_rows) :
               \A j \in Unsaveable(ds_rows) : i <= j
    IN  /\ Len(ds_json) < k
        /\ data_json = data_json0
        /\ ft_pc # "patch"
        /\ ft_error.kind = "OSError" =>
             /\ failed_row = k
             /\ ft_pc = "failed"
             /\ ~ ENABLED ConvNext

C10_Witness ==
  /\ ft_error.kind = "OSError"
  /\ failed_row >= 2
  /\ map_pos >= 1
  /\ data_json0.exists
  /\ data_json = data_json0

\* the turns of a conversation: for each sentence from the i-th on, in order,
\* '<|eot_id|>' + role string + the sentence's value
RECURSIVE Turns(_, _)
Turns(src, i) ==
  IF i > Len(src) THEN <<>>
  ELSE EOT_ID \o role_of(src[i].from) \o src[i].value \o Turns(src, i + 1)

\* C5: for every header and source list and both values of get_conversation,
\* the returned string ends with '<|eot_id|>'; with get_conversation true it
\* is the header, then for each sentence in order '<|eot_id|>' + role string
\* + the sentence's original value, then one final '<|eot_id|>'.
C5_ConversationEndsWithEos ==
  calls >= 1 =>
    /\ EndsWith(conversation, EOT_ID)
    /\ get_conversation =>
         conversation = header \o Turns(source_before, 1) \o EOT_ID

C5_Witness ==
  /\ calls = 1
  /\ get_conversation
  /\ header # <<>>
  /\ Len(source_before) = 2
  /\ source_before[1].from = <<"H", "u", "m", "a", "n">>
  /\ source_before[2].from = <<"g", "p", "t">>

\* C6 as stated: the image is fetched, then the prompt is built, then the
\* model is loaded, then one generation call is made, then the output is
\* decoded: a step has completed only if those before it have.
C6_ClaimedOrder ==
  LET claimed == << "download_image", "preprocess_prompt", "load_model",
                    "generate", "decode" >>
  IN  /\ IsPrefix(Restrict(inf_log, Range(claimed)), claimed)
      /\ generate_calls <= 1

\* C6 amended: the model is loaded, then the image is fetched, then the
\* prompt is built, then exactly one generation call is made, then the output
\* is decoded; a step has completed only if those before it have.
C6_NotebookOrder ==
  LET order == << "load_model", "download_image", "preprocess_prompt",
                  "generate", "decode" >>
  IN  /\ IsPrefix(Restrict(inf_log, Range(order)), order)
      /\ generate_calls <= 1
      /\ "generate" \in Range(inf_log) => generate_calls = 1
      /\ \A s \in Range(order) :
           inf_pc = s => s \notin Range(inf_log)

C6_Witness ==
  /\ inf_pc = "done"
  /\ generate_calls = 1
  /\ "decode" \in Range(inf_log)

\* C7: load and quantize, attach the adapters, align, convert the dataset and
\* write data.json, construct the data module, train, merge, save: a step
\* has completed only if those before it have, each at most once.
C7_FineTuningOrder ==
  LET order == << "load_model", "lora", "align", "map", "write_json",
                  "data_module", "train", "merge", "save_model",
                  "save_tokenizer", "save_image_processor" >>
  IN  /\ IsPrefix(Restrict(ft_log, Range(order)), order)
      /\ \A s \in Range(order) : ft_pc = s => s \notin Range(ft_log)

C7_Witness ==
  /\ ft_pc = "done"
  /\ "save_image_processor" \in Range(ft_log)
  /\ Len(data_json.records) >= 2

\* C8: the merge step reads adapters from a location the training step has
\* written adapter weights to, applies them to the loaded base model, and the
\* model that is saved afterwards is the result of that merge.
C8_MergeFoldsTrainedAdapters ==
  merge_call.called =>
    /\ merge_call.adapters \in adapter_dirs
    /\ merge_call.base.type = "model"
    /\ \A s \in saved : s.component = "model" => s.content = "merged"

\* a pipeline is failed exactly when one of its steps has raised, and that
\* step has not completed
C9_FailedState ==
  /\ inf_error # "none" <=> inf_pc = "failed"
  /\ inf_error # "none" => inf_error \notin Range(inf_log)
  /\ ft_error # NoError <=> ft_pc = "failed"
  /\ ft_error # NoError => ft_error.step \notin Range(ft_log)

\* C9: in both pipelines a step that raises is fatal: the pipeline is failed
\* and never completed, the failing step has not completed and is not run
\* again, and no later step runs.
C9_FailureIsFatal ==
  /\ []C9_FailedState
  /\ [][ /\ inf_pc = "failed" => UNCHANGED infVars
         /\ ft_pc = "failed" => UNCHANGED <<ftVars, convVars>> ]_vars

C9_Witness ==
  /\ inf_error = "download_image"
  /\ ft_error.step = "train"
  /\ ft_pc = "failed"
  /\ inf_pc = "failed"

\* the three components the save cell saves
SaveComponents == {"model", "tokenizer", "image_processor"}

\* C11: when the save cell has completed, the merged model, the tokenizer and
\* the image processor have all been saved into the one directory merged_path,
\* and each of the three has been published to the one repository repo_id if
\* and only if push_to_hub is true; with push_to_hub false nothing is ever
\* sent to the hub.
C11_SavedAndPublished ==
  /\ ~push_to_hub => hub = {}
  /\ \A h \in hub : h.repo = "atasoglu/Turkish-LLaVA-v0.1-ft"
  /\ ft_pc = "done" =>
       /\ {s.component : s \in saved} = SaveComponents
       /\ \A s \in saved : s.path = "merged_output"
       /\ \A c \in SaveComponents :
            push_to_hub <=> (\E h \in hub : h.component = c)

C11_Witness ==
  /\ ft_pc = "done"
  /\ push_to_hub
  /\ {h.component : h \in hub} = SaveComponents
  /\ Cardinality(saved) = 3

\* C12: the generation configuration passed to the generate call is a flat
\* mapping with exactly the keys do_sample and max_new_tokens; max_new_tokens
\* is a positive integer, sampling is off, and no sampling-only parameter
\* (temperature, top_p, top_k) is among the keys.
C12_GenerationConfig ==
  generate_calls >= 1 =>
    /\ DOMAIN generate_kwargs = {"do_sample", "max_new_tokens"}
    /\ generate_kwargs.do_sample = FALSE
    /\ generate_kwargs.max_new_tokens \in Nat
    /\ generate_kwargs.max_new_tokens > 0
    /\ DOMAIN generate_kwargs \cap {"temperature", "top_p", "top_k"} = {}

C12_Witness ==
  /\ generate_calls = 1
  /\ "generate" \in Range(inf_log)
  /\ DOMAIN generate_kwargs # {}

\* the states in which a notebook has stopped
Stopped == {"done", "failed"}

\* the steps of the fine-tuning notebook that follow the training call
AfterTrain ==
  {"login", "merge", "save_model", "save_tokenizer", "save_image_processor",
   "done"}

\* C13: each pipeline eventually stops, in its completed state or in a failed
\* state, given that every pending call returns or raises; the training call
\* is made exactly once by a run that reaches it, it is one step that ends
\* with the pipeline either moved on or failed, and no later step runs until
\* it has completed.
C13_PipelinesStop ==
  /\ <>[](inf_pc \in Stopped)
  /\ <>[](ft_pc \in Stopped)
  /\ [](train_calls <= 1)
  /\ []( ("train" \in Range(ft_log) \/ ft_error.step = "train")
           <=> train_calls = 1 )
  /\ [](ft_pc \in AfterTrain => "train" \in Range(ft_log))
  /\ [][ train_calls' # train_calls =>
           /\ ft_pc = "train"
           /\ ft_pc' \in {"login", "failed"}
           /\ UNCHANGED infVars ]_vars

C13_Witness ==
  /\ inf_pc = "done"
  /\ ft_pc = "done"
  /\ train_calls = 1

\* C14: for every system prompt, user prompt and caption, the patched
\* function called with the default conversation's system string as header
\* and with the two turns of the converter's record returns
\* preprocess_prompt(system prompt, user prompt) + caption + '<|eot_id|>':
\* up to the assistant's answer the training text is the inference prompt.
C14_TrainingTextExtendsPrompt ==
  calls = 1 =>
    /\ conversation = preprocess_prompt(system_prompt, ft_user_prompt)
                        \o ds_rows[1].detailed_caption \o EOT_ID
    /\ IsPrefix(preprocess_prompt(system_prompt, ft_user_prompt), conversation)

C14_Witness ==
  /\ calls = 1
  /\ Len(system_prompt) = MaxLen
  /\ ft_user_prompt # <<>>
  /\ ft_user_prompt # system_prompt
  /\ ds_rows[1].detailed_caption = <<"<", "a">>

C16_Prefixed ==
  calls >= 1 =>
    /\ Len(source) = Len(source_before)
    /\ \A i \in 1..Len(source) :
         /\ DOMAIN source[i] = {"from", "value"}
         /\ source[i].from = source_before[i].from
         /\ source[i].value = EOT_ID \o role_of(source_before[i].from)
                                \o source_before[i].value
         /\ Len(source[i].value) > Len(source_before[i].value)
    /\ source # <<>> => source # source_before
    /\ ~get_conversation => conversation = header \o EOT_ID

\* C16: a call changes its source argument in place: for both values of
\* get_conversation every sentence's value becomes '<|eot_id|>' + role string
\* + its value before the call, and nothing else in the sentence or the
\* header changes; a second call on the same list prefixes each value again,
\* so the function is not idempotent; with get_conversation false the call
\* returns exactly header + '<|eot_id|>'.
C16_SourceChangedInPlace ==
  /\ []C16_Prefixed
  /\ [][ /\ header' = header
         /\ get_conversation' = get_conversation
         /\ calls' = calls + 1
         /\ source # <<>> => source' # source ]_vars

C16_Witness ==
  /\ calls = 2
  /\ ~get_conversation
  /\ header # <<>>
  /\ Len(source) = 2
  /\ source_before[1].from = <<"g", "p", "t">>
  /\ source_before[2].from = <<"s", "y", "s", "t", "e", "m">>

\* s is word in some letter case; word is given in lower case
AnyCaseOf(s, word) ==
  /\ Len(s) = Len(word)
  /\ \A i \in 1..Len(s) :
       \/ s[i] = word[i]
       \/ \E k \in 1..Len(LOWER) : LOWER[k] = word[i] /\ UPPER[k] = s[i]

\* the role string the claim gives a 'from' field
ClaimedRole(from_str) ==
  IF AnyCaseOf(from_str, <<"h", "u", "m", "a", "n">>)
    THEN RoleHeader(<<"u", "s", "e", "r">>)
  ELSE IF AnyCaseOf(from_str, <<"g", "p", "t">>)
    THEN RoleHeader(<<"a", "s", "s", "i", "s", "t", "a", "n", "t">>)
  ELSE <<"u", "n", "k", "n", "o", "w", "n">>

\* C17: the role of a sentence is chosen from its 'from' field without regard
\* to letter case: 'human' in any case gives the user role header roles[0],
\* 'gpt' in any case gives the assistant role header roles[1], every other
\* value gives the literal 'unknown'; no value raises and no sentence is
\* skipped.
C17_RoleByFromIgnoringCase ==
  /\ RoleHeader(<<"u", "s", "e", "r">>) = roles[1]
  /\ RoleHeader(<<"a", "s", "s", "i", "s", "t", "a", "n", "t">>) = roles[2]
  /\ calls >= 1 =>
       /\ Len(source) = Len(source_before)
       /\ \A i \in 1..Len(source_before) :
            source[i].value = EOT_ID \o ClaimedRole(source_before[i].from)
                                \o source_before[i].value
       /\ get_conversation =>
            \A i \in 1..Len(source_before) :
              Contains(conversation,
                       EOT_ID \o ClaimedRole(source_before[i].from)
                         \o source_before[i].value)

C17_Witness ==
  /\ calls = 1
  /\ get_conversation
  /\ Len(source_before) = 2
  /\ source_before[1].from = <<"G", "P", "T">>
  /\ source_before[2].from = <<"s", "y", "s", "t", "e", "m">>

\* the steps that read data.json or build training examples
UsesDataset == {"data_module", "inspect", "train"}

\* a step has been started: it is next, it has completed, or it has raised
Started(step) ==
  \/ ft_pc = step
  \/ step \in Range(ft_log)
  \/ ft_error.step = step

\* C18: llava_train._add_speaker_and_signal is replaced by patched_fn before
\* the data module is constructed, before example 0 is inspected and before
\* trainer.train; once replaced the name yields patched_fn at every later
\* moment; no training example is ever formatted by the unpatched function.
C18_PatchedBeforeFirstExample ==
  /\ [](formatted_by \subseteq {"patched_fn"})
  /\ [](\A s \in UsesDataset :
          Started(s) => /\ "patch" \in Range(ft_log)
                        /\ add_speaker_and_signal = "patched_fn")
  /\ []("patch" \in Range(ft_log) => add_speaker_and_signal = "patched_fn")
  /\ [][ add_speaker_and_signal = "patched_fn"
           => add_speaker_and_signal' = "patched_fn" ]_vars

C18_Witness ==
  /\ "train" \in Range(ft_log)
  /\ "inspect" \in Range(ft_log)
  /\ formatted_by = {"patched_fn"}
  /\ add_speaker_and_signal = "patched_fn"

\* the steps of the conversion cell that follow prepare_dataset_path
AfterPreparePath == {"load_dataset", "map", "write_json", "patch"}

\* the directories are in place and the files written so far lie in them
C19_DirectoriesInPlace ==
  /\ dataset_dir = <<"llava_dataset">>
  /\ "prepare_path" \in Range(ft_log) =>
       /\ <<"llava_dataset">> \in dirs
       /\ <<"llava_dataset", "images">> \in dirs
       /\ prepare_dataset_path(dataset_dir, dirs) = dirs
  /\ (ft_pc \in AfterPreparePath \/ ft_error.step \in AfterPreparePath) =>
       "prepare_path" \in Range(ft_log)
  /\ DOMAIN image_files # {} =>
       /\ "prepare_path" \in Range(ft_log)
       /\ <<"llava_dataset", "images">> \in dirs
  /\ data_json # data_json0 =>
       /\ "prepare_path" \in Range(ft_log)
       /\ <<"llava_dataset">> \in dirs

\* C19: after prepare_dataset_path(d) both d and d/images exist, whatever
\* existed before, and a second call changes nothing and raises no error; the
\* conversion cell calls it with the dataset_dir of the configuration cell
\* before the first image is saved and before data.json is opened, so every
\* file the conversion writes goes into a directory that exists.
C19_PreparePathFirst ==
  /\ []C19_DirectoriesInPlace
  /\ [][ /\ dirs \subseteq dirs'
         /\ ft_pc = "prepare_path" =>
              dirs' = dirs \cup {<<"llava_dataset">>,
                                 <<"llava_dataset", "images">>} ]_vars

C19_Witness ==
  /\ ft_pc = "patch"
  /\ Cardinality(DOMAIN image_files) = 2
  /\ data_json.exists
  /\ data_json # data_json0
  /\ dirs = {<<"llava_dataset">>, <<"llava_dataset", "images">>}

\* the trainable set the claim gives for a trainable set before the cell
ClaimedTrainable(before) ==
  CASE tune_mm_mlp_adapter /\ freeze_mm_mlp_adapter -> {}
    [] tune_mm_mlp_adapter /\ ~freeze_mm_mlp_adapter ->
         {"mm_projector.0", "mm_projector.2"}
    [] ~tune_mm_mlp_adapter /\ freeze_mm_mlp_adapter ->
         before \ {"mm_projector.0", "mm_projector.2"}
    [] OTHER -> before

\* C20: the alignment cell sets the trainable parameters by the two projector
\* flags: with tune_mm_mlp_adapter every parameter is frozen and then exactly
\* the projector's parameters are trainable; with freeze_mm_mlp_adapter every
\* projector parameter is frozen; with both the freeze comes last and no
\* parameter is trainable; with neither, the notebook's default, the trainable
\* set the adapter attachment produced is left as it is.
C20_TrainableByProjectorFlags ==
  /\ []( "align" \in Range(ft_log) =>
           /\ trainable = ClaimedTrainable({"lora_A", "lora_B"})
           /\ freeze_mm_mlp_adapter =>
                trainable \cap {"mm_projector.0", "mm_projector.2"} = {}
           /\ trainable \subseteq Params )
  /\ [][ (ft_pc = "align" /\ ft_pc' = "dtypes") =>
           trainable' = ClaimedTrainable(trainable) ]_vars
  /\ [][ "align" \in Range(ft_log) => trainable' = trainable ]_vars

C20_Witness ==
  /\ "align" \in Range(ft_log)
  /\ tune_mm_mlp_adapter
  /\ freeze_mm_mlp_adapter
  /\ trainable = {}
  /\ ft_pc = "done"

====
